---- MODULE Spec2Model ----
(***************************************************************************)
(* ByteDatePicker (src/ByteDatePicker.tsx): a popup date picker with a     *)
(* years / months / days drill-down.  The file holds two variants of the   *)
(* component: the first (lines 38-330) has no bounds, no format pattern    *)
(* and no render-prop trigger; the second (lines 389-750) has them.        *)
(*                                                                         *)
(* Dates.  A JavaScript Date is modelled by its local calendar fields      *)
(* <<year, month (0-based), day, hour>>; null/undefined is <<>>.  The Date *)
(* constructor, Date.parse and the comparison of two Dates follow          *)
(* ECMAScript: MakeDay's overflow normalisation, the 0..99 -> 1900..1999   *)
(* year mapping of new Date(y, m, d), date-only ISO text read as UTC, and  *)
(* comparison by time value.  Time is counted in hours.                    *)
(*                                                                         *)
(* Text.  A string is a sequence of one-character strings.                 *)
(***************************************************************************)
EXTENDS Integers, Sequences, FiniteSets, TLC

VARIABLES
    \* ---- props of the second variant and its environment
    value,          \* props.value: a Date or null
    disabled,       \* props.disabled
    includeDays,    \* props.includeDays
    minDate,        \* props.minDate: a bound input (Date | string | undefined)
    maxDate,        \* props.maxDate
    hideInput,      \* props.hideInput (render-prop trigger when TRUE)
    formatString,   \* props.formatString: a pattern, <<>> when absent
    tz,             \* the host's offset from UTC, in hours
    \* ---- state of the second variant (useState)
    selectedDate,
    currentYear,
    currentMonth,
    isOpen,
    viewMode,
    phase,          \* "created" (after useState), "mounted" (effects ran,
                    \* listeners registered), "unmounted" (cleanup ran)
    listeners,      \* how often handleClickOutside is registered on the
                    \* document, per event type
    \* ---- observation
    ev,             \* the handler that ran last, with its argument
    onChangeCalls,  \* the arguments onChange was called with by that handler
    \* ---- the first variant, as one record (props, state, observation)
    v1,
    \* ---- the last application of a pure helper: [fn, arg, out]
    pure

props == <<value, disabled, includeDays, minDate, maxDate, hideInput, formatString, tz>>
state == <<selectedDate, currentYear, currentMonth, isOpen, viewMode>>
vars  == <<value, disabled, includeDays, minDate, maxDate, hideInput, formatString, tz,
           selectedDate, currentYear, currentMonth, isOpen, viewMode, phase, listeners,
           ev, onChangeCalls, v1, pure>>

null == <<>>
undefined == <<>>

\* document.addEventListener / removeEventListener for one handler: the
\* registrations of the handler per event type.
NoListeners == [mousedown |-> 0, touchstart |-> 0]
addEventListener(registered, type) == [registered EXCEPT ![type] = @ + 1]
removeEventListener(registered, type) ==
    [registered EXCEPT ![type] = IF @ > 0 THEN @ - 1 ELSE 0]
InvalidDate == <<0>>

(***************************************************************************)
(* ECMAScript Date arithmetic                                              *)
(***************************************************************************)

\* Day number (days since 1970-01-01) of the civil date y-(m+1)-d, m in 0..11.
DayFromCivil(y, m, d) ==
    LET yy  == IF m <= 1 THEN y - 1 ELSE y
        era == yy \div 400
        yoe == yy - era * 400
        mp  == IF m >= 2 THEN m - 2 ELSE m + 10
        doy == (153 * mp + 2) \div 5 + d - 1
        doe == yoe * 365 + yoe \div 4 - yoe \div 100 + doy
    IN  era * 146097 + doe - 719468

\* The civil date <<y, m, d>> (m in 0..11) of a day number.
CivilFromDay(n) ==
    LET z   == n + 719468
        era == z \div 146097
        doe == z - era * 146097
        yoe == (doe - doe \div 1460 + doe \div 36524 - doe \div 146096) \div 365
        doy == doe - (365 * yoe + yoe \div 4 - yoe \div 100)
        mp  == (5 * doy + 2) \div 153
        d   == doy - (153 * mp + 2) \div 5 + 1
        m   == IF mp < 10 THEN mp + 2 ELSE mp - 10
        y   == yoe + era * 400 + (IF m <= 1 THEN 1 ELSE 0)
    IN  <<y, m, d>>

\* MakeDay(year, month, date): month and date may lie outside their ranges.
MakeDay(year, month, date) ==
    DayFromCivil(year + month \div 12, month % 12, 1) + date - 1

\* The Date whose local time is t hours after the local epoch.
DateFromLocalHours(t) ==
    LET c == CivilFromDay(t \div 24)
    IN  <<c[1], c[2], c[3], t % 24>>

LocalHours(date) == DayFromCivil(date[1], date[2], date[3]) * 24 + date[4]

\* new Date(year, month, day): local midnight; a year in 0..99 means 1900+year.
NewDate(year, month, day) ==
    LET yr == IF year >= 0 /\ year <= 99 THEN 1900 + year ELSE year
    IN  DateFromLocalHours(MakeDay(yr, month, day) * 24)

getFullYear(date) == date[1]
getMonth(date)    == date[2]
getDate(date)     == date[3]
\* Date.prototype.getTime / valueOf, in hours (UTC).
getTime(date)     == LocalHours(date) - tz

\* new Date(text).  Date-only ISO text ("2024-01-10") is UTC midnight; text in
\* another accepted form ("2024/01/10", "2024-01-10T00:00") is local midnight;
\* anything else is an Invalid Date.
ParseDate(text) ==
    CASE text.form = "iso"   -> DateFromLocalHours(DayFromCivil(text.y, text.m, text.d) * 24 + tz)
      [] text.form = "local" -> DateFromLocalHours(DayFromCivil(text.y, text.m, text.d) * 24)
      [] OTHER               -> InvalidDate

(***************************************************************************)
(* Text                                                                    *)
(***************************************************************************)

DigitChars == <<"0", "1", "2", "3", "4", "5", "6", "7", "8", "9">>

RECURSIVE NatToString(_)
NatToString(n) ==
    IF n < 10 THEN <<DigitChars[n + 1]>>
    ELSE NatToString(n \div 10) \o <<DigitChars[(n % 10) + 1]>>

\* Number.prototype.toString / String(n) of an integer.
NumberToString(n) == IF n < 0 THEN <<"-">> \o NatToString(-n) ELSE NatToString(n)

\* String.prototype.padStart(targetLength, padChar).
RECURSIVE padStart(_, _, _)
padStart(str, targetLength, padChar) ==
    IF Len(str) >= targetLength THEN str
    ELSE padStart(<<padChar>> \o str, targetLength, padChar)

StartsWith(str, token) ==
    Len(str) >= Len(token) /\ SubSeq(str, 1, Len(token)) = token

\* str.replace(/token/g, replacement): every leftmost non-overlapping match.
RECURSIVE replaceAll(_, _, _)
replaceAll(str, token, replacement) ==
    IF str = <<>> THEN <<>>
    ELSE IF StartsWith(str, token)
    THEN replacement \o replaceAll(SubSeq(str, Len(token) + 1, Len(str)), token, replacement)
    ELSE <<Head(str)>> \o replaceAll(Tail(str), token, replacement)

monthNames == << "January", "February", "March", "April", "May", "June", "July",
                 "August", "September", "October", "November", "December" >>

\* formatDateByString (lines 375-380).
formatDateByString(date, format) ==
    LET yyyy == NumberToString(getFullYear(date))
        mm   == padStart(NumberToString(getMonth(date) + 1), 2, "0")
        dd   == padStart(NumberToString(getDate(date)), 2, "0")
    IN  replaceAll(replaceAll(replaceAll(format, <<"y", "y", "y", "y">>, yyyy),
                              <<"m", "m">>, mm),
                   <<"d", "d">>, dd)

(***************************************************************************)
(* Module-level helpers of the second variant                              *)
(***************************************************************************)

getDaysInMonth(year, month) == getDate(NewDate(year, month + 1, 0))

\* A bound input: undefined, a Date, or a string.
NoBound == [kind |-> "undefined", form |-> "-", y |-> 0, m |-> 0, d |-> 0, h |-> 0]
DateBound(y, m, d, h) == [kind |-> "Date", form |-> "-", y |-> y, m |-> m, d |-> d, h |-> h]
TextBound(form, y, m, d) == [kind |-> "string", form |-> form, y |-> y, m |-> m, d |-> d, h |-> 0]

normalizeToDate(val) ==
    IF val.kind = "undefined" \/ (val.kind = "string" /\ val.form = "empty")
    THEN undefined
    ELSE IF val.kind = "Date"
    THEN <<val.y, val.m, val.d, val.h>>
    ELSE LET parsed == ParseDate(val)
         IN  IF parsed = InvalidDate THEN undefined ELSE parsed

(***************************************************************************)
(* The second variant: values computed on each render                      *)
(***************************************************************************)

\* The wall clock read at construction (new Date()).
Today == <<2024, 5, 15, 9>>

min == normalizeToDate(minDate)
max == normalizeToDate(maxDate)

\* yearRange starting one year late.
yearRange_OffByOne == [i \in 1..20 |-> currentYear - 9 + (i - 1)]

yearRange == [i \in 1..20 |-> currentYear - 10 + (i - 1)]

\* formatDisplay (lines 447-453); a month name is kept as one element.
formatDisplay(date) ==
    IF date = null THEN <<>>
    ELSE IF formatString # <<>> THEN formatDateByString(date, formatString)
    ELSE IF includeDays
    THEN NumberToString(getDate(date)) \o <<" ", monthNames[getMonth(date) + 1], " ">>
            \o NumberToString(getFullYear(date))
    ELSE <<monthNames[getMonth(date) + 1], " ">> \o NumberToString(getFullYear(date))

isDateInRange(date) ==
    IF min # undefined /\ getTime(date) < getTime(min) THEN FALSE
    ELSE IF max # undefined /\ getTime(date) > getTime(max) THEN FALSE
    ELSE TRUE

\* The disabled attribute of a month cell, a year cell and a day cell.
monthCellDisabled(index) == ~isDateInRange(NewDate(currentYear, index, 1))
yearCellDisabled(year)   == ~isDateInRange(NewDate(year, 0, 1))
dayCellDisabled(day)     == ~isDateInRange(NewDate(currentYear, currentMonth, day))

(***************************************************************************)
(* Bounds of the model and the inputs the events are drawn from            *)
(***************************************************************************)

\* Navigation is followed while the cursor year stays in YearLo..YearHi, in
\* the same years one year-grid page (20 years) later, or at the year of an
\* externally supplied value and the year before it.
YearLo == 2023
YearHi == 2024
ValueInputs == { <<2024, 0, 10, 0>>, <<100, 11, 31, 0>> }
CursorYears == (YearLo..YearHi) \cup {y + 20 : y \in YearLo..YearHi}
               \cup {v[1] : v \in ValueInputs} \cup {v[1] - 1 : v \in ValueInputs}

\* The day cells, month cells and year cells the user clicks.
DayInputs   == {5, 10}
MonthInputs == {0, 5, 11}

\* The hosts the component runs on: <<minDate, maxDate, tz>>.
HostInputs == { <<NoBound, NoBound, 0>>,
                <<DateBound(2024, 0, 10, 0), DateBound(2024, 5, 30, 0), 0>>,
                <<TextBound("iso", 2024, 0, 10), TextBound("local", 2024, 5, 30), 5>> }

NoEvent == [op |-> "none", arg |-> 0]
Event(op, arg) == [op |-> op, arg |-> arg]

\* a || b on numbers: 0 is falsy.
OrElse(a, b) == IF a # 0 THEN a ELSE b

Dir(direction) == IF direction = "prev" THEN -1 ELSE 1

(***************************************************************************)
(* The second variant: construction                                        *)
(***************************************************************************)

\* useState initialisers (lines 402-412).
InitState ==
    /\ selectedDate = value
    /\ currentYear  = IF value # null THEN OrElse(getFullYear(value), getFullYear(Today))
                                      ELSE getFullYear(Today)
    /\ currentMonth = IF value # null THEN OrElse(getMonth(value), getMonth(Today))
                                      ELSE getMonth(Today)
    /\ isOpen = FALSE
    /\ viewMode = IF includeDays THEN "days" ELSE "months"
    /\ phase = "created"
    /\ listeners = NoListeners

\* The first variant is not run by this specification.
V1Idle == [phase |-> "off"]

Init ==
    /\ value \in ValueInputs \cup {null}
    /\ disabled \in BOOLEAN
    /\ includeDays \in BOOLEAN
    /\ \E host \in HostInputs : minDate = host[1] /\ maxDate = host[2] /\ tz = host[3]
    /\ hideInput \in BOOLEAN
    /\ formatString = <<>>
    /\ InitState
    /\ ev = NoEvent
    /\ onChangeCalls = <<>>
    /\ v1 = V1Idle
    /\ pure = <<>>

(***************************************************************************)
(* The second variant: effects and handlers                                *)
(***************************************************************************)

\* What every handler of the second variant leaves alone: the props other
\* than value are the configuration the component was created with.
Frame == UNCHANGED <<disabled, includeDays, minDate, maxDate, hideInput,
                     formatString, tz, v1, pure>>

\* useEffect(..., [value]) (lines 437-443), run with the value v.
valueEffect(v) ==
    /\ selectedDate' = v
    /\ IF v # null
       THEN currentYear' = getFullYear(v) /\ currentMonth' = getMonth(v)
       ELSE UNCHANGED <<currentYear, currentMonth>>

\* The first commit: both effects run, the listeners are registered.
Mount ==
    /\ phase = "created"
    /\ phase' = "mounted"
    /\ listeners' = addEventListener(addEventListener(listeners, "mousedown"), "touchstart")
    /\ valueEffect(value)
    /\ ev' = Event("mount", 0)
    /\ onChangeCalls' = <<>>
    /\ UNCHANGED <<value, isOpen, viewMode>>
    /\ Frame

\* The cleanup removing the mousedown listener only.
Unmount_LeavesTouchListener ==
    /\ phase = "mounted"
    /\ phase' = "unmounted"
    /\ listeners' = removeEventListener(listeners, "mousedown")
    /\ ev' = Event("unmount", 0)
    /\ onChangeCalls' = <<>>
    /\ UNCHANGED <<value, selectedDate, currentYear, currentMonth, isOpen, viewMode>>
    /\ Frame

\* The cleanup of the listener effect (lines 431-434).
Unmount ==
    /\ phase = "mounted"
    /\ phase' = "unmounted"
    /\ listeners' = removeEventListener(removeEventListener(listeners, "mousedown"),
                                        "touchstart")
    /\ ev' = Event("unmount", 0)
    /\ onChangeCalls' = <<>>
    /\ UNCHANGED <<value, selectedDate, currentYear, currentMonth, isOpen, viewMode>>
    /\ Frame

\* The parent renders the component with another value: the effect runs.
ValueChange ==
    /\ phase = "mounted"
    /\ \E v \in ValueInputs \cup {null} :
          /\ value' = v
          /\ valueEffect(v)
    /\ ev' = Event("valueChange", 0)
    /\ onChangeCalls' = <<>>
    /\ UNCHANGED <<isOpen, viewMode, phase, listeners>>
    /\ Frame

\* The document events the outside-pointer handler is registered for.
PointerEvents == <<"mousedown", "touchstart">>

\* handleClickOutside (lines 420-428): a mousedown or touchstart whose target
\* is outside the container.
handleClickOutside ==
    /\ isOpen' = FALSE
    /\ viewMode' = "months"
    /\ UNCHANGED <<selectedDate, currentYear, currentMonth>>

OutsidePointer ==
    /\ phase = "mounted"
    /\ handleClickOutside
    /\ \E kind \in {1, 2} :
          /\ listeners[PointerEvents[kind]] > 0
          /\ ev' = Event("outside", kind)
    /\ onChangeCalls' = <<>>
    /\ UNCHANGED <<value, phase, listeners>>
    /\ Frame

\* open (lines 524-526), handed to the render prop.
open ==
    /\ isOpen' = IF ~disabled THEN TRUE ELSE isOpen
    /\ UNCHANGED <<selectedDate, currentYear, currentMonth, viewMode>>

RenderPropOpen ==
    /\ phase = "mounted"
    /\ hideInput
    /\ open
    /\ ev' = Event("open", 0)
    /\ onChangeCalls' = <<>>
    /\ UNCHANGED <<value, phase, listeners>>
    /\ Frame

\* The input's onClick without the disabled test.
inputOnClick_IgnoresDisabled ==
    /\ isOpen' = ~isOpen
    /\ UNCHANGED <<selectedDate, currentYear, currentMonth, viewMode>>

\* onClick of datepicker-input (line 533).
inputOnClick ==
    /\ isOpen' = IF ~disabled THEN ~isOpen ELSE isOpen
    /\ UNCHANGED <<selectedDate, currentYear, currentMonth, viewMode>>

InputClick ==
    /\ phase = "mounted"
    /\ ~hideInput
    /\ inputOnClick
    /\ ev' = Event("inputClick", 0)
    /\ onChangeCalls' = <<>>
    /\ UNCHANGED <<value, phase, listeners>>
    /\ Frame

\* The overlay's onClick also resetting the view mode, as an outside click does.
OverlayClick_ResetsView ==
    /\ phase = "mounted"
    /\ isOpen
    /\ isOpen' = FALSE
    /\ viewMode' = "months"
    /\ ev' = Event("overlay", 0)
    /\ onChangeCalls' = <<>>
    /\ UNCHANGED <<value, phase, listeners, selectedDate, currentYear, currentMonth>>
    /\ Frame

\* onClick of datepicker-overlay (line 564).
OverlayClick ==
    /\ phase = "mounted"
    /\ isOpen
    /\ isOpen' = FALSE
    /\ ev' = Event("overlay", 0)
    /\ onChangeCalls' = <<>>
    /\ UNCHANGED <<value, phase, listeners, selectedDate, currentYear, currentMonth, viewMode>>
    /\ Frame

\* handleDaySelect without its range check.
handleDaySelect_NoRangeCheck(day) ==
    LET newDate == NewDate(currentYear, currentMonth, day)
    IN  /\ selectedDate' = newDate
        /\ onChangeCalls' = <<newDate>>
        /\ isOpen' = FALSE
        /\ viewMode' = IF includeDays THEN "days" ELSE "months"
        /\ UNCHANGED <<currentYear, currentMonth>>

\* handleDaySelect (lines 461-468).
handleDaySelect(day) ==
    LET newDate == NewDate(currentYear, currentMonth, day)
    IN  IF ~isDateInRange(newDate)
        THEN /\ onChangeCalls' = <<>>
             /\ UNCHANGED state
        ELSE /\ selectedDate' = newDate
             /\ onChangeCalls' = <<newDate>>
             /\ isOpen' = FALSE
             /\ viewMode' = IF includeDays THEN "days" ELSE "months"
             /\ UNCHANGED <<currentYear, currentMonth>>

\* handleMonthSelect drilling down to the days whatever includeDays is.
handleMonthSelect_AlwaysDrillsDown(monthIndex) ==
    /\ currentMonth' = monthIndex
    /\ viewMode' = "days"
    /\ onChangeCalls' = <<>>
    /\ UNCHANGED <<selectedDate, currentYear, isOpen>>

\* handleMonthSelect calling onChange when it only drills down to the days.
handleMonthSelect_NotifiesDrillDown(monthIndex) ==
    IF includeDays
    THEN /\ currentMonth' = monthIndex
         /\ viewMode' = "days"
         /\ onChangeCalls' = <<NewDate(currentYear, monthIndex, 1)>>
         /\ UNCHANGED <<selectedDate, currentYear, isOpen>>
    ELSE LET newDate == NewDate(currentYear, monthIndex, 1)
         IN  IF ~isDateInRange(newDate)
             THEN /\ onChangeCalls' = <<>>
                  /\ UNCHANGED state
             ELSE /\ selectedDate' = newDate
                  /\ onChangeCalls' = <<newDate>>
                  /\ isOpen' = FALSE
                  /\ UNCHANGED <<currentYear, currentMonth, viewMode>>

\* handleMonthSelect (lines 470-481).
handleMonthSelect(monthIndex) ==
    IF includeDays
    THEN /\ currentMonth' = monthIndex
         /\ viewMode' = "days"
         /\ onChangeCalls' = <<>>
         /\ UNCHANGED <<selectedDate, currentYear, isOpen>>
    ELSE LET newDate == NewDate(currentYear, monthIndex, 1)
         IN  IF ~isDateInRange(newDate)
             THEN /\ onChangeCalls' = <<>>
                  /\ UNCHANGED state
             ELSE /\ selectedDate' = newDate
                  /\ onChangeCalls' = <<newDate>>
                  /\ isOpen' = FALSE
                  /\ UNCHANGED <<currentYear, currentMonth, viewMode>>

\* handleYearSelect storing the 1st of the cursor month of the picked year.
handleYearSelect_SelectsYear(year) ==
    /\ currentYear' = year
    /\ viewMode' = "months"
    /\ selectedDate' = NewDate(year, currentMonth, 1)
    /\ UNCHANGED <<currentMonth, isOpen>>

\* handleYearSelect (lines 483-486).
handleYearSelect(year) ==
    /\ currentYear' = year
    /\ viewMode' = "months"
    /\ UNCHANGED <<selectedDate, currentMonth, isOpen>>

\* navigateYear stepping one year in every view mode.
navigateYear_AlwaysOne(direction) ==
    /\ currentYear' = currentYear + Dir(direction)
    /\ UNCHANGED <<selectedDate, currentMonth, isOpen, viewMode>>

\* navigateYear (lines 488-493).
navigateYear(direction) ==
    LET increment == IF viewMode = "years" THEN 20 ELSE 1
    IN  /\ currentYear' = currentYear + (IF direction = "prev" THEN -increment ELSE increment)
        /\ UNCHANGED <<selectedDate, currentMonth, isOpen, viewMode>>

\* navigateMonth whose prev wraps January into December of the same year.
navigateMonth_PrevKeepsYear(direction) ==
    /\ IF direction = "next"
       THEN IF currentMonth = 11
            THEN currentMonth' = 0 /\ currentYear' = currentYear + 1
            ELSE currentMonth' = currentMonth + 1 /\ UNCHANGED currentYear
       ELSE /\ currentMonth' = IF currentMonth = 0 THEN 11 ELSE currentMonth - 1
            /\ UNCHANGED currentYear
    /\ UNCHANGED <<selectedDate, isOpen, viewMode>>

\* navigateMonth stepping the month without wrapping at December and January.
navigateMonth_NoWrap(direction) ==
    /\ currentMonth' = currentMonth + Dir(direction)
    /\ UNCHANGED <<selectedDate, currentYear, isOpen, viewMode>>

\* navigateMonth wrapping the month without carrying into the year.
navigateMonth_NoCarry(direction) ==
    /\ currentMonth' = (currentMonth + Dir(direction)) % 12
    /\ UNCHANGED <<selectedDate, currentYear, isOpen, viewMode>>

\* navigateMonth (lines 495-505).
navigateMonth(direction) ==
    /\ IF direction = "next"
       THEN IF currentMonth = 11
            THEN currentMonth' = 0 /\ currentYear' = currentYear + 1
            ELSE currentMonth' = currentMonth + 1 /\ UNCHANGED currentYear
       ELSE IF currentMonth = 0
            THEN currentMonth' = 11 /\ currentYear' = currentYear - 1
            ELSE currentMonth' = currentMonth - 1 /\ UNCHANGED currentYear
    /\ UNCHANGED <<selectedDate, isOpen, viewMode>>

(***************************************************************************)
(* The second variant: the clicks the open popup offers (lines 560-748)    *)
(***************************************************************************)

\* What a click inside the popup leaves alone.
ClickFrame == UNCHANGED <<value, phase, listeners>> /\ Frame

\* A day cell of the days grid.  A disabled cell is clicked too: the handler
\* refuses the day its cell shows disabled, so the step is the same.
DayCellClick ==
    /\ phase = "mounted" /\ isOpen /\ viewMode = "days"
    /\ \E day \in DayInputs :
          /\ day <= getDaysInMonth(currentYear, currentMonth)
          /\ handleDaySelect(day)
          /\ ev' = Event("daySelect", day)
    /\ ClickFrame

\* A month cell of the months grid.  With days, a disabled cell takes no
\* click; without days the handler refuses what the cell shows disabled.
MonthCellClick ==
    /\ phase = "mounted" /\ isOpen /\ viewMode = "months"
    /\ \E monthIndex \in MonthInputs :
          /\ includeDays => ~monthCellDisabled(monthIndex)
          /\ handleMonthSelect(monthIndex)
          /\ ev' = Event("monthSelect", monthIndex)
    /\ ClickFrame

\* An enabled year cell of the years grid.
YearCellClick ==
    /\ phase = "mounted" /\ isOpen /\ viewMode = "years"
    /\ \E i \in 1..20 :
          /\ yearRange[i] \in CursorYears
          /\ ~yearCellDisabled(yearRange[i])
          /\ handleYearSelect(yearRange[i])
          /\ ev' = Event("yearSelect", yearRange[i])
    /\ onChangeCalls' = <<>>
    /\ ClickFrame

\* The prev and next buttons of the months and years headers.
YearNavClick ==
    /\ phase = "mounted" /\ isOpen /\ viewMode \in {"months", "years"}
    /\ \E direction \in {"prev", "next"} :
          /\ navigateYear(direction)
          /\ currentYear' \in CursorYears
          /\ ev' = Event("navigateYear", Dir(direction))
    /\ onChangeCalls' = <<>>
    /\ ClickFrame

\* The prev and next buttons of the days header.
MonthNavClick ==
    /\ phase = "mounted" /\ isOpen /\ viewMode = "days"
    /\ \E direction \in {"prev", "next"} :
          /\ navigateMonth(direction)
          /\ currentYear' \in CursorYears
          /\ ev' = Event("navigateMonth", Dir(direction))
    /\ onChangeCalls' = <<>>
    /\ ClickFrame

\* The year label of the months header: setViewMode("years") (line 583).
YearLabelClick ==
    /\ phase = "mounted" /\ isOpen /\ viewMode = "months"
    /\ viewMode' = "years"
    /\ ev' = Event("yearLabel", 0)
    /\ onChangeCalls' = <<>>
    /\ UNCHANGED <<selectedDate, currentYear, currentMonth, isOpen>>
    /\ ClickFrame

\* The month/year label of the days header: setViewMode("months") (line 689).
MonthLabelClick ==
    /\ phase = "mounted" /\ isOpen /\ viewMode = "days"
    /\ viewMode' = "months"
    /\ ev' = Event("monthLabel", 0)
    /\ onChangeCalls' = <<>>
    /\ UNCHANGED <<selectedDate, currentYear, currentMonth, isOpen>>
    /\ ClickFrame

Next ==
    \/ Mount
    \/ Unmount
    \/ ValueChange
    \/ OutsidePointer
    \/ RenderPropOpen
    \/ InputClick
    \/ OverlayClick
    \/ DayCellClick
    \/ MonthCellClick
    \/ YearCellClick
    \/ YearNavClick
    \/ MonthNavClick
    \/ YearLabelClick
    \/ MonthLabelClick

Spec == Init /\ [][Next]_vars

(***************************************************************************)
(* The first variant (lines 38-330), on the record v1                      *)
(***************************************************************************)

\* useState initialisers (lines 46-56) for the props val, dis, inc.
V1_Construct(val, dis, inc) ==
    [ phase         |-> "created",
      listeners     |-> NoListeners,
      value         |-> val,
      disabled      |-> dis,
      includeDays   |-> inc,
      selectedDate  |-> IF val # undefined THEN val ELSE Today,
      currentYear   |-> IF val # undefined THEN OrElse(getFullYear(val), getFullYear(Today))
                                           ELSE getFullYear(Today),
      currentMonth  |-> IF val # undefined THEN OrElse(getMonth(val), getMonth(Today))
                                           ELSE getMonth(Today),
      isOpen        |-> FALSE,
      viewMode      |-> IF inc THEN "days" ELSE "months",
      ev            |-> NoEvent,
      onChangeCalls |-> <<>> ]

\* The record after a handler named op ran with arg and left it as s.
V1_After(s, op, arg) == [s EXCEPT !.ev = Event(op, arg)]
\* The record a handler starts from: no onChange call made yet.
V1_Before(s) == [s EXCEPT !.onChangeCalls = <<>>]

\* useEffect(..., [value]) (lines 74-76), run with the value v.
V1_valueEffect(s, v) == [s EXCEPT !.selectedDate = v]

\* handleClickOutside (lines 61-69).
V1_handleClickOutside(s) == [s EXCEPT !.isOpen = FALSE, !.viewMode = "months"]

\* onClick of datepicker-input (line 152).
V1_inputOnClick(s) == [s EXCEPT !.isOpen = IF ~s.disabled THEN ~s.isOpen ELSE s.isOpen]

\* handleDaySelect (lines 87-93).
V1_handleDaySelect(s, day) ==
    LET newDate == NewDate(s.currentYear, s.currentMonth, day)
    IN  [s EXCEPT !.selectedDate = newDate,
                  !.onChangeCalls = <<newDate>>,
                  !.isOpen = FALSE,
                  !.viewMode = IF s.includeDays THEN "days" ELSE "months"]

\* handleMonthSelect (lines 95-105).
V1_handleMonthSelect(s, monthIndex) ==
    IF s.includeDays
    THEN [s EXCEPT !.currentMonth = monthIndex, !.viewMode = "days"]
    ELSE LET newDate == NewDate(s.currentYear, monthIndex, 1)
         IN  [s EXCEPT !.selectedDate = newDate,
                       !.onChangeCalls = <<newDate>>,
                       !.isOpen = FALSE]

\* handleYearSelect (lines 107-110).
V1_handleYearSelect(s, year) == [s EXCEPT !.currentYear = year, !.viewMode = "months"]

\* navigateYear (lines 112-117).
V1_navigateYear(s, direction) ==
    LET increment == IF s.viewMode = "years" THEN 20 ELSE 1
    IN  [s EXCEPT !.currentYear = s.currentYear
                        + (IF direction = "prev" THEN -increment ELSE increment)]

\* navigateMonth (lines 119-129).
V1_navigateMonth(s, direction) ==
    IF direction = "next"
    THEN IF s.currentMonth = 11
         THEN [s EXCEPT !.currentMonth = 0, !.currentYear = s.currentYear + 1]
         ELSE [s EXCEPT !.currentMonth = s.currentMonth + 1]
    ELSE IF s.currentMonth = 0
         THEN [s EXCEPT !.currentMonth = 11, !.currentYear = s.currentYear - 1]
         ELSE [s EXCEPT !.currentMonth = s.currentMonth - 1]

\* yearRange (line 78).
V1_yearRange(s) == [i \in 1..20 |-> s.currentYear - 10 + (i - 1)]

\* The second variant is not run by the first variant's specification.
V1_Frame == UNCHANGED <<value, disabled, includeDays, minDate, maxDate, hideInput,
                        formatString, tz, selectedDate, currentYear, currentMonth,
                        isOpen, viewMode, phase, listeners, ev, onChangeCalls, pure>>

InitV1 ==
    /\ value = null
    /\ disabled = FALSE
    /\ includeDays = TRUE
    /\ minDate = NoBound
    /\ maxDate = NoBound
    /\ hideInput = FALSE
    /\ formatString = <<>>
    /\ tz = 0
    /\ InitState
    /\ ev = NoEvent
    /\ onChangeCalls = <<>>
    /\ pure = <<>>
    /\ \E val \in ValueInputs \cup {undefined}, dis \in BOOLEAN, inc \in BOOLEAN :
          v1 = V1_Construct(val, dis, inc)

\* The first commit: both effects run.
V1_Mount ==
    /\ v1.phase = "created"
    /\ v1' = V1_After([V1_valueEffect(V1_Before(v1), v1.value)
                           EXCEPT !.phase = "mounted",
                                  !.listeners = addEventListener(@, "mousedown")],
                      "mount", 0)
    /\ V1_Frame

\* The cleanup of the listener effect (line 71).
V1_Unmount ==
    /\ v1.phase = "mounted"
    /\ v1' = V1_After([V1_Before(v1)
                           EXCEPT !.phase = "unmounted",
                                  !.listeners = removeEventListener(@, "mousedown")],
                      "unmount", 0)
    /\ V1_Frame

V1_ValueChange ==
    /\ v1.phase = "mounted"
    /\ \E v \in ValueInputs \cup {undefined} :
          v1' = V1_After(V1_valueEffect([V1_Before(v1) EXCEPT !.value = v], v),
                         "valueChange", 0)
    /\ V1_Frame

\* A mousedown outside the container.
V1_OutsidePointer ==
    /\ v1.phase = "mounted"
    /\ v1.listeners["mousedown"] > 0
    /\ v1' = V1_After(V1_handleClickOutside(V1_Before(v1)), "outside", 1)
    /\ V1_Frame

V1_InputClick ==
    /\ v1.phase = "mounted"
    /\ v1' = V1_After(V1_inputOnClick(V1_Before(v1)), "inputClick", 0)
    /\ V1_Frame

\* onClick of datepicker-overlay (line 174).
V1_OverlayClick ==
    /\ v1.phase = "mounted" /\ v1.isOpen
    /\ v1' = V1_After([V1_Before(v1) EXCEPT !.isOpen = FALSE], "overlay", 0)
    /\ V1_Frame

V1_DayCellClick ==
    /\ v1.phase = "mounted" /\ v1.isOpen /\ v1.viewMode = "days"
    /\ \E day \in DayInputs :
          /\ day <= getDaysInMonth(v1.currentYear, v1.currentMonth)
          /\ v1' = V1_After(V1_handleDaySelect(V1_Before(v1), day), "daySelect", day)
    /\ V1_Frame

V1_MonthCellClick ==
    /\ v1.phase = "mounted" /\ v1.isOpen /\ v1.viewMode = "months"
    /\ \E monthIndex \in MonthInputs :
          v1' = V1_After(V1_handleMonthSelect(V1_Before(v1), monthIndex),
                         "monthSelect", monthIndex)
    /\ V1_Frame

V1_YearCellClick ==
    /\ v1.phase = "mounted" /\ v1.isOpen /\ v1.viewMode = "years"
    /\ \E i \in 1..20 :
          LET year == V1_yearRange(v1)[i]
          IN  /\ year \in CursorYears
              /\ v1' = V1_After(V1_handleYearSelect(V1_Before(v1), year), "yearSelect", year)
    /\ V1_Frame

V1_YearNavClick ==
    /\ v1.phase = "mounted" /\ v1.isOpen /\ v1.viewMode \in {"months", "years"}
    /\ \E direction \in {"prev", "next"} :
          /\ v1' = V1_After(V1_navigateYear(V1_Before(v1), direction),
                            "navigateYear", Dir(direction))
          /\ v1'.currentYear \in CursorYears
    /\ V1_Frame

V1_MonthNavClick ==
    /\ v1.phase = "mounted" /\ v1.isOpen /\ v1.viewMode = "days"
    /\ \E direction \in {"prev", "next"} :
          /\ v1' = V1_After(V1_navigateMonth(V1_Before(v1), direction),
                            "navigateMonth", Dir(direction))
          /\ v1'.currentYear \in CursorYears
    /\ V1_Frame

\* setViewMode("years") (line 190).
V1_YearLabelClick ==
    /\ v1.phase = "mounted" /\ v1.isOpen /\ v1.viewMode = "months"
    /\ v1' = V1_After([V1_Before(v1) EXCEPT !.viewMode = "years"], "yearLabel", 0)
    /\ V1_Frame

\* setViewMode("months") (line 276).
V1_MonthLabelClick ==
    /\ v1.phase = "mounted" /\ v1.isOpen /\ v1.viewMode = "days"
    /\ v1' = V1_After([V1_Before(v1) EXCEPT !.viewMode = "months"], "monthLabel", 0)
    /\ V1_Frame

NextV1 ==
    \/ V1_Mount
    \/ V1_Unmount
    \/ V1_ValueChange
    \/ V1_OutsidePointer
    \/ V1_InputClick
    \/ V1_OverlayClick
    \/ V1_DayCellClick
    \/ V1_MonthCellClick
    \/ V1_YearCellClick
    \/ V1_YearNavClick
    \/ V1_MonthNavClick
    \/ V1_YearLabelClick
    \/ V1_MonthLabelClick

SpecV1 == InitV1 /\ [][NextV1]_vars

(***************************************************************************)
(* The two variants side by side, on the same events.  The second variant  *)
(* has no bounds, no format pattern and the inline input trigger.          *)
(***************************************************************************)

\* What a joint step leaves alone: the configuration of both variants.
BothFrame == UNCHANGED <<disabled, includeDays, minDate, maxDate, hideInput,
                         formatString, tz, pure>>

\* The values the parent supplies to both (a January value), and the cursor
\* years and months navigation is followed through: YearLo..YearHi, the
\* months around the December/January carry and around today's month.
BothValueInputs == { <<2024, 0, 10, 0>> }
BothYears == YearLo..YearHi
BothMonths == {11, 0, 1} \cup {getMonth(Today), getMonth(Today) + 1}

InitBoth ==
    /\ value \in BothValueInputs \cup {null}
    /\ disabled \in BOOLEAN
    /\ includeDays \in BOOLEAN
    /\ minDate = NoBound
    /\ maxDate = NoBound
    /\ hideInput = FALSE
    /\ formatString = <<>>
    /\ tz = 0
    /\ InitState
    /\ ev = NoEvent
    /\ onChangeCalls = <<>>
    /\ pure = <<>>
    /\ v1 = V1_Construct(value, disabled, includeDays)

\* Both instances are committed for the first time.
Both_Mount ==
    /\ phase = "created" /\ v1.phase = "created"
    /\ phase' = "mounted"
    /\ listeners' = addEventListener(addEventListener(listeners, "mousedown"), "touchstart")
    /\ valueEffect(value)
    /\ ev' = Event("mount", 0)
    /\ onChangeCalls' = <<>>
    /\ UNCHANGED <<value, isOpen, viewMode>>
    /\ v1' = V1_After([V1_valueEffect(V1_Before(v1), v1.value)
                           EXCEPT !.phase = "mounted",
                                  !.listeners = addEventListener(@, "mousedown")],
                      "mount", 0)
    /\ BothFrame

\* Both instances are torn down.
Both_Unmount ==
    /\ phase = "mounted" /\ v1.phase = "mounted"
    /\ phase' = "unmounted"
    /\ listeners' = removeEventListener(removeEventListener(listeners, "mousedown"),
                                        "touchstart")
    /\ ev' = Event("unmount", 0)
    /\ onChangeCalls' = <<>>
    /\ UNCHANGED <<value, selectedDate, currentYear, currentMonth, isOpen, viewMode>>
    /\ v1' = V1_After([V1_Before(v1)
                           EXCEPT !.phase = "unmounted",
                                  !.listeners = removeEventListener(@, "mousedown")],
                      "unmount", 0)
    /\ BothFrame

\* The parent renders both with the same new value.
Both_ValueChange ==
    /\ phase = "mounted" /\ v1.phase = "mounted"
    /\ \E v \in BothValueInputs \cup {null} :
          /\ value' = v
          /\ valueEffect(v)
          /\ v1' = V1_After(V1_valueEffect([V1_Before(v1) EXCEPT !.value = v], v),
                            "valueChange", 0)
    /\ ev' = Event("valueChange", 0)
    /\ onChangeCalls' = <<>>
    /\ UNCHANGED <<isOpen, viewMode, phase, listeners>>
    /\ BothFrame

\* A mousedown outside both containers.
Both_OutsideMouseDown ==
    /\ phase = "mounted" /\ v1.phase = "mounted"
    /\ listeners["mousedown"] > 0 /\ v1.listeners["mousedown"] > 0
    /\ handleClickOutside
    /\ ev' = Event("outside", 1)
    /\ onChangeCalls' = <<>>
    /\ v1' = V1_After(V1_handleClickOutside(V1_Before(v1)), "outside", 1)
    /\ UNCHANGED <<value, phase, listeners>>
    /\ BothFrame

Both_InputClick ==
    /\ phase = "mounted" /\ v1.phase = "mounted"
    /\ inputOnClick
    /\ ev' = Event("inputClick", 0)
    /\ onChangeCalls' = <<>>
    /\ v1' = V1_After(V1_inputOnClick(V1_Before(v1)), "inputClick", 0)
    /\ UNCHANGED <<value, phase, listeners>>
    /\ BothFrame

Both_OverlayClick ==
    /\ phase = "mounted" /\ v1.phase = "mounted"
    /\ isOpen /\ v1.isOpen
    /\ isOpen' = FALSE
    /\ ev' = Event("overlay", 0)
    /\ onChangeCalls' = <<>>
    /\ v1' = V1_After([V1_Before(v1) EXCEPT !.isOpen = FALSE], "overlay", 0)
    /\ UNCHANGED <<value, phase, listeners, selectedDate, currentYear, currentMonth, viewMode>>
    /\ BothFrame

\* The same day cell is clicked in both days grids.
Both_DayCellClick ==
    /\ phase = "mounted" /\ isOpen /\ viewMode = "days"
    /\ v1.phase = "mounted" /\ v1.isOpen /\ v1.viewMode = "days"
    /\ \E day \in DayInputs :
          /\ day <= getDaysInMonth(currentYear, currentMonth)
          /\ day <= getDaysInMonth(v1.currentYear, v1.currentMonth)
          /\ handleDaySelect(day)
          /\ ev' = Event("daySelect", day)
          /\ v1' = V1_After(V1_handleDaySelect(V1_Before(v1), day), "daySelect", day)
    /\ UNCHANGED <<value, phase, listeners>>
    /\ BothFrame

\* The same month cell is clicked in both months grids.
Both_MonthCellClick ==
    /\ phase = "mounted" /\ isOpen /\ viewMode = "months"
    /\ v1.phase = "mounted" /\ v1.isOpen /\ v1.viewMode = "months"
    /\ \E monthIndex \in MonthInputs :
          /\ handleMonthSelect(monthIndex)
          /\ ev' = Event("monthSelect", monthIndex)
          /\ v1' = V1_After(V1_handleMonthSelect(V1_Before(v1), monthIndex),
                            "monthSelect", monthIndex)
    /\ UNCHANGED <<value, phase, listeners>>
    /\ BothFrame

\* The cell of the same year is clicked in both years grids.
Both_YearCellClick ==
    /\ phase = "mounted" /\ isOpen /\ viewMode = "years"
    /\ v1.phase = "mounted" /\ v1.isOpen /\ v1.viewMode = "years"
    /\ \E i \in 1..20, j \in 1..20 :
          /\ yearRange[i] = V1_yearRange(v1)[j]
          /\ yearRange[i] \in BothYears
          /\ handleYearSelect(yearRange[i])
          /\ ev' = Event("yearSelect", yearRange[i])
          /\ v1' = V1_After(V1_handleYearSelect(V1_Before(v1), yearRange[i]),
                            "yearSelect", yearRange[i])
    /\ onChangeCalls' = <<>>
    /\ UNCHANGED <<value, phase, listeners>>
    /\ BothFrame

Both_YearNavClick ==
    /\ phase = "mounted" /\ isOpen /\ viewMode \in {"months", "years"}
    /\ v1.phase = "mounted" /\ v1.isOpen /\ v1.viewMode \in {"months", "years"}
    /\ \E direction \in {"prev", "next"} :
          /\ navigateYear(direction)
          /\ currentYear' \in BothYears
          /\ ev' = Event("navigateYear", Dir(direction))
          /\ v1' = V1_After(V1_navigateYear(V1_Before(v1), direction),
                            "navigateYear", Dir(direction))
          /\ v1'.currentYear \in BothYears
    /\ onChangeCalls' = <<>>
    /\ UNCHANGED <<value, phase, listeners>>
    /\ BothFrame

Both_MonthNavClick ==
    /\ phase = "mounted" /\ isOpen /\ viewMode = "days"
    /\ v1.phase = "mounted" /\ v1.isOpen /\ v1.viewMode = "days"
    /\ \E direction \in {"prev", "next"} :
          /\ navigateMonth(direction)
          /\ currentYear' \in BothYears
          /\ ev' = Event("navigateMonth", Dir(direction))
          /\ currentMonth' \in BothMonths
          /\ v1' = V1_After(V1_navigateMonth(V1_Before(v1), direction),
                            "navigateMonth", Dir(direction))
          /\ v1'.currentYear \in BothYears
          /\ v1'.currentMonth \in BothMonths
    /\ onChangeCalls' = <<>>
    /\ UNCHANGED <<value, phase, listeners>>
    /\ BothFrame

Both_YearLabelClick ==
    /\ phase = "mounted" /\ isOpen /\ viewMode = "months"
    /\ v1.phase = "mounted" /\ v1.isOpen /\ v1.viewMode = "months"
    /\ viewMode' = "years"
    /\ ev' = Event("yearLabel", 0)
    /\ onChangeCalls' = <<>>
    /\ v1' = V1_After([V1_Before(v1) EXCEPT !.viewMode = "years"], "yearLabel", 0)
    /\ UNCHANGED <<value, phase, listeners, selectedDate, currentYear, currentMonth, isOpen>>
    /\ BothFrame

Both_MonthLabelClick ==
    /\ phase = "mounted" /\ isOpen /\ viewMode = "days"
    /\ v1.phase = "mounted" /\ v1.isOpen /\ v1.viewMode = "days"
    /\ viewMode' = "months"
    /\ ev' = Event("monthLabel", 0)
    /\ onChangeCalls' = <<>>
    /\ v1' = V1_After([V1_Before(v1) EXCEPT !.viewMode = "months"], "monthLabel", 0)
    /\ UNCHANGED <<value, phase, listeners, selectedDate, currentYear, currentMonth, isOpen>>
    /\ BothFrame

NextBoth ==
    \/ Both_Mount
    \/ Both_Unmount
    \/ Both_ValueChange
    \/ Both_OutsideMouseDown
    \/ Both_InputClick
    \/ Both_OverlayClick
    \/ Both_DayCellClick
    \/ Both_MonthCellClick
    \/ Both_YearCellClick
    \/ Both_YearNavClick
    \/ Both_MonthNavClick
    \/ Both_YearLabelClick
    \/ Both_MonthLabelClick

SpecBoth == InitBoth /\ [][NextBoth]_vars

(***************************************************************************)
(* isDateInRange over many bounds and hosts                                *)
(***************************************************************************)

\* The bounds a host passes: absent, a Date at local midnight, date-only ISO
\* text, text in a local-time form, text that does not parse, empty text.
RangeBoundInputs ==
    {NoBound, TextBound("garbage", 0, 0, 0), TextBound("empty", 0, 0, 0)}
    \cup {DateBound(2024, 0, d, 0) : d \in {10, 12}}
    \cup {TextBound(form, 2024, 0, d) : form \in {"iso", "local"}, d \in {10, 12}}
TzInputs == {-5, 0, 5}
\* The candidate days: 2023-12-31 and 2024-01-01 .. 2024-01-14.
CandidateInputs == {<<2023, 11, 31>>} \cup {<<2024, 0, d>> : d \in 1..14}

InitRange ==
    /\ value = null
    /\ disabled = FALSE
    /\ includeDays = TRUE
    /\ minDate \in RangeBoundInputs
    /\ maxDate \in RangeBoundInputs
    /\ hideInput = FALSE
    /\ formatString = <<>>
    /\ tz \in TzInputs
    /\ InitState
    /\ ev = NoEvent
    /\ onChangeCalls = <<>>
    /\ v1 = V1Idle
    /\ pure = <<>>

\* isDateInRange applied to the Date of a day cell (lines 722-723).
ApplyIsDateInRange ==
    /\ \E c \in CandidateInputs :
          pure' = [fn  |-> "isDateInRange",
                   arg |-> c,
                   out |-> isDateInRange(NewDate(c[1], c[2], c[3]))]
    /\ UNCHANGED <<value, disabled, includeDays, minDate, maxDate, hideInput,
                   formatString, tz, selectedDate, currentYear, currentMonth,
                   isOpen, viewMode, phase, listeners, ev, onChangeCalls, v1>>

NextRange == ApplyIsDateInRange

SpecRange == InitRange /\ [][NextRange]_vars

(***************************************************************************)
(* formatDisplay over many patterns and dates                              *)
(***************************************************************************)

\* Every pattern over y, m, d and a separator up to MaxPatternLen characters,
\* and some longer ones.
MaxPatternLen == 4
PatternChars == {"y", "m", "d", "/"}
PatternInputs ==
    UNION {[1..n -> PatternChars] : n \in 1..MaxPatternLen}
    \cup { <<"y","y","y","y","/","m","m","/","d","d">>,
           <<"d","d","-","m","m","-","y","y","y","y">>,
           <<"y","y","y","y","y","y","y","y","m","m","m","d","d","d","d">>,
           <<"y","y","m","m","y","y","d","d","m","d","y","y","y","y">> }
FormatDateInputs == { <<2023, 2, 15, 0>>, <<2024, 11, 5, 0>>, <<999, 9, 31, 0>>,
                      <<99, 0, 1, 0>>, <<12345, 5, 30, 0>> }

InitFormat ==
    /\ value \in FormatDateInputs
    /\ disabled = FALSE
    /\ includeDays \in BOOLEAN
    /\ minDate = NoBound
    /\ maxDate = NoBound
    /\ hideInput = FALSE
    /\ formatString \in PatternInputs \cup {<<>>}
    /\ tz = 0
    /\ InitState
    /\ ev = NoEvent
    /\ onChangeCalls = <<>>
    /\ v1 = V1Idle
    /\ pure = <<>>

\* The text of the input and the formattedValue of the render prop
\* (lines 536 and 556).
ApplyFormatDisplay ==
    /\ phase = "mounted"
    /\ pure' = [fn |-> "formatDisplay", arg |-> selectedDate, out |-> formatDisplay(selectedDate)]
    /\ UNCHANGED <<value, disabled, includeDays, minDate, maxDate, hideInput,
                   formatString, tz, selectedDate, currentYear, currentMonth,
                   isOpen, viewMode, phase, listeners, ev, onChangeCalls, v1>>

NextFormat == Mount \/ ApplyFormatDisplay

SpecFormat == InitFormat /\ [][NextFormat]_vars

(***************************************************************************)
(* getDaysInMonth over many years                                          *)
(***************************************************************************)

\* The cursor years the days grid is drawn for: the years around year 0 and
\* the two-digit years, century years, and recent years.
DaysYearInputs == (-8..104) \cup {1600, 1700, 1900, 1996, 2000, 2023, 2024, 2100, 2400}

InitDays ==
    /\ value = null
    /\ disabled = FALSE
    /\ includeDays = TRUE
    /\ minDate = NoBound
    /\ maxDate = NoBound
    /\ hideInput = FALSE
    /\ formatString = <<>>
    /\ tz = 0
    /\ InitState
    /\ ev = NoEvent
    /\ onChangeCalls = <<>>
    /\ v1 = V1Idle
    /\ pure = <<>>

\* getDaysInMonth(currentYear, currentMonth) of the days grid (line 718).
ApplyGetDaysInMonth ==
    /\ \E year \in DaysYearInputs, month \in 0..11 :
          pure' = [fn  |-> "getDaysInMonth",
                   arg |-> <<year, month>>,
                   out |-> getDaysInMonth(year, month)]
    /\ UNCHANGED <<value, disabled, includeDays, minDate, maxDate, hideInput,
                   formatString, tz, selectedDate, currentYear, currentMonth,
                   isOpen, viewMode, phase, listeners, ev, onChangeCalls, v1>>

NextDays == ApplyGetDaysInMonth

SpecDays == InitDays /\ [][NextDays]_vars

(***************************************************************************)
(* Navigation, with the step before each navigation step on record         *)
(***************************************************************************)

\* What a navigation step leaves alone.
NavFrame == UNCHANGED <<value, phase, listeners, disabled, includeDays, minDate,
                        maxDate, hideInput, formatString, tz, v1>>

InitNav ==
    /\ value \in ValueInputs \cup {null}
    /\ disabled = FALSE
    /\ includeDays \in BOOLEAN
    /\ minDate = NoBound
    /\ maxDate = NoBound
    /\ hideInput = FALSE
    /\ formatString = <<>>
    /\ tz = 0
    /\ InitState
    /\ ev = NoEvent
    /\ onChangeCalls = <<>>
    /\ v1 = V1Idle
    /\ pure = <<>>

\* The record of a navigation step fn in direction arg: the cursor it started
\* from and, if the step before it was a step of the same handler, that
\* step's direction and the cursor that one started from.
RecordNavigation(fn, arg) ==
    pure' = [fn  |-> fn,
             arg |-> arg,
             out |-> <<currentYear, currentMonth>>,
             before |-> IF ev.op = fn /\ pure # <<>> /\ pure.fn = fn
                        THEN <<pure.arg, pure.out, viewMode>>
                        ELSE <<>>]

\* The prev and next buttons of the days header.
NavMonthClick ==
    /\ phase = "mounted" /\ isOpen /\ viewMode = "days"
    /\ \E direction \in {"prev", "next"} :
          /\ navigateMonth(direction)
          /\ currentYear' \in CursorYears
          /\ ev' = Event("navigateMonth", Dir(direction))
          /\ RecordNavigation("navigateMonth", Dir(direction))
    /\ onChangeCalls' = <<>>
    /\ NavFrame

\* The prev and next buttons of the months and years headers.
NavYearClick ==
    /\ phase = "mounted" /\ isOpen /\ viewMode \in {"months", "years"}
    /\ \E direction \in {"prev", "next"} :
          /\ navigateYear(direction)
          /\ currentYear' \in CursorYears
          /\ ev' = Event("navigateYear", Dir(direction))
          /\ RecordNavigation("navigateYear", Dir(direction))
    /\ onChangeCalls' = <<>>
    /\ NavFrame

NextNav ==
    \/ Mount
    \/ InputClick
    \/ YearLabelClick
    \/ MonthLabelClick
    \/ MonthCellClick
    \/ NavMonthClick
    \/ NavYearClick

SpecNav == InitNav /\ [][NextNav]_vars

(***************************************************************************)
(* Calendar-day reading of the bounds, independent of the component        *)
(***************************************************************************)

\* Whether a bound input names a calendar day, and the day it names.
NamesDay(b) == b.kind = "Date" \/ (b.kind = "string" /\ b.form \in {"iso", "local"})
DayOf(date) == <<date[1], date[2], date[3]>>
BoundDay(b) == <<b.y, b.m, b.d>>

\* a is a calendar day strictly before b.
DayBefore(a, b) ==
    \/ a[1] < b[1]
    \/ a[1] = b[1] /\ a[2] < b[2]
    \/ a[1] = b[1] /\ a[2] = b[2] /\ a[3] < b[3]

\* The calendar day of date lies strictly outside the configured bounds.
OutOfRange(date) ==
    \/ NamesDay(minDate) /\ DayBefore(DayOf(date), BoundDay(minDate))
    \/ NamesDay(maxDate) /\ DayBefore(BoundDay(maxDate), DayOf(date))

(***************************************************************************)
(* Claims                                                                  *)
(***************************************************************************)

\* C1: a step that attempts to select a day (handleDaySelect) or, without
\* days, a month (handleMonthSelect) whose resulting date is out of range
\* leaves selection, open flag, view mode and view cursor unchanged and does
\* not call onChange.
C1_OutOfRangeSelectIsNoOp ==
    [][ ( \/ /\ ev'.op = "daySelect"
             /\ OutOfRange(NewDate(currentYear, currentMonth, ev'.arg))
          \/ /\ ev'.op = "monthSelect"
             /\ ~includeDays
             /\ OutOfRange(NewDate(currentYear, ev'.arg, 1)) )
        => /\ UNCHANGED <<selectedDate, isOpen, viewMode, currentYear, currentMonth>>
           /\ onChangeCalls' = <<>> ]_vars

\* C1 witness: an out-of-range day has just been attempted in the open popup.
C1_Witness ==
    /\ ev.op = "daySelect"
    /\ OutOfRange(NewDate(currentYear, currentMonth, ev.arg))
    /\ isOpen /\ viewMode = "days"
    /\ onChangeCalls = <<>>

\* C2: a candidate calendar date is selectable exactly when it is not strictly
\* before the day min names and not strictly after the day max names; an
\* absent or unparseable bound imposes no constraint.
C2_InclusiveRange ==
    pure # <<>> /\ pure.fn = "isDateInRange"
        => (pure.out <=> ~OutOfRange(NewDate(pure.arg[1], pure.arg[2], pure.arg[3])))

\* C2, for bounds given as Dates or as text in a local-time form only: these
\* the component compares day by day on every host.
C2_InclusiveRangeLocalBounds ==
    ( /\ pure # <<>> /\ pure.fn = "isDateInRange"
      /\ ~(minDate.kind = "string" /\ minDate.form = "iso")
      /\ ~(maxDate.kind = "string" /\ maxDate.form = "iso") )
    => (pure.out <=> ~OutOfRange(NewDate(pure.arg[1], pure.arg[2], pure.arg[3])))

\* The step is a successful selection: an in-range day pick, or an in-range
\* month pick without days.
SuccessfulSelection ==
    \/ /\ ev'.op = "daySelect"
       /\ isDateInRange(NewDate(currentYear, currentMonth, ev'.arg))
    \/ /\ ev'.op = "monthSelect"
       /\ ~includeDays
       /\ isDateInRange(NewDate(currentYear, ev'.arg, 1))

\* C3 as claimed: onChange is called exactly once per successful selection
\* with the newly selected date, with null when the selection is cleared, and
\* at no other time.
C3_CallbackOnSelectAndClear ==
    [][ onChangeCalls' =
            IF SuccessfulSelection THEN <<selectedDate'>>
            ELSE IF selectedDate # null /\ selectedDate' = null THEN <<null>>
            ELSE <<>> ]_vars

\* C3 amended: onChange is called exactly once per successful selection with
\* the newly selected date and at no other time; it is never called with
\* null, and a selection cleared by the external value calls nothing.
C3_CallbackOnSelectOnly ==
    [][ /\ onChangeCalls' = IF SuccessfulSelection THEN <<selectedDate'>> ELSE <<>>
        /\ SuccessfulSelection => selectedDate' # null ]_vars

\* C3 witness: a selection has just succeeded and onChange received it once.
C3_Witness ==
    /\ ev.op \in {"daySelect", "monthSelect"}
    /\ selectedDate # null
    /\ onChangeCalls = <<selectedDate>>
    /\ ~isOpen

\* C4 as claimed: with days, picking a day d that the component finds in
\* range at cursor (Y, M) stores the calendar date Y-M-d, for every cursor
\* year, closes the popup, leaves the view mode at days and passes that date
\* to onChange.
C4_DayPickStoresCursorDate ==
    [][ ( /\ ev'.op = "daySelect"
          /\ includeDays
          /\ isDateInRange(NewDate(currentYear, currentMonth, ev'.arg)) )
        => /\ selectedDate' = <<currentYear, currentMonth, ev'.arg, 0>>
           /\ isOpen' = FALSE
           /\ viewMode' = "days"
           /\ onChangeCalls' = <<selectedDate'>> ]_vars

\* C5 as claimed: without days, picking month m at cursor year Y stores the
\* 1st of month m of year Y if the component finds that date in range, closes
\* the popup, keeps the view mode at months and passes that date to onChange.
C5_MonthPickStoresFirstOfMonth ==
    [][ ( /\ ev'.op = "monthSelect"
          /\ ~includeDays
          /\ isDateInRange(NewDate(currentYear, ev'.arg, 1)) )
        => /\ selectedDate' = <<currentYear, ev'.arg, 1, 0>>
           /\ isOpen' = FALSE
           /\ viewMode' = "months"
           /\ onChangeCalls' = <<selectedDate'>> ]_vars

\* C7: with the disabled flag set the popup is closed in every reachable
\* state, whatever trigger is used, no onChange call occurs and the selection
\* is only what the external value made it.
C7_DisabledStaysClosed ==
    disabled => /\ ~isOpen
                /\ onChangeCalls = <<>>
                /\ selectedDate = value

\* C7 witness: a trigger has just been used on a disabled picker.
C7_Witness ==
    /\ disabled
    /\ ev.op = "inputClick"
    /\ ~isOpen

\* C8: month navigation from (Y, M): next gives (Y, M+1), or (Y+1, 0) from
\* December; prev gives (Y, M-1), or (Y-1, 11) from January; nothing else in
\* the state changes.
C8_MonthNavigation ==
    [][ ev'.op = "navigateMonth"
        => /\ ev'.arg = 1 =>
                <<currentYear', currentMonth'>> =
                    IF currentMonth < 11 THEN <<currentYear, currentMonth + 1>>
                                         ELSE <<currentYear + 1, 0>>
           /\ ev'.arg = -1 =>
                <<currentYear', currentMonth'>> =
                    IF currentMonth > 0 THEN <<currentYear, currentMonth - 1>>
                                        ELSE <<currentYear - 1, 11>>
           /\ ev'.arg \in {-1, 1}
           /\ onChangeCalls' = <<>>
           /\ UNCHANGED <<selectedDate, isOpen, viewMode, phase>>
           /\ UNCHANGED props ]_vars

\* C8 witness: next has just carried December of YearLo into January.
C8_Witness ==
    /\ ev.op = "navigateMonth" /\ ev.arg = 1
    /\ currentMonth = 0 /\ currentYear = YearLo + 1
    /\ isOpen /\ viewMode = "days"

\* C9: the year-grid window is exactly the 20 consecutive years
\* currentYear-10 .. currentYear+9, the cursor year being its 11th element.
C9_YearWindow ==
    /\ DOMAIN yearRange = 1..20
    /\ \A i \in 1..19 : yearRange[i + 1] = yearRange[i] + 1
    /\ yearRange[1] = currentYear - 10
    /\ yearRange[20] = currentYear + 9
    /\ yearRange[11] = currentYear

\* C9 witness: the years grid is shown after the cursor year was moved.
C9_Witness ==
    /\ isOpen /\ viewMode = "years"
    /\ ev.op = "navigateYear"
    /\ currentYear # getFullYear(Today)

\* C6, second variant: a change of the external value makes the selection
\* that value and, if it is present, the view cursor its (year, month); an
\* absent value leaves the cursor unchanged.
C6_SecondVariantResyncs ==
    [][ ev'.op = "valueChange"
        => /\ selectedDate' = value'
           /\ <<currentYear', currentMonth'>> =
                 IF value' # null THEN <<getFullYear(value'), getMonth(value')>>
                                  ELSE <<currentYear, currentMonth>> ]_vars

\* C6 as claimed, in each variant: a change of the external value makes the
\* selection that value and, if it is present, the view cursor its
\* (year, month); an absent value leaves the cursor unchanged.
C6_ValueResyncInEachVariant ==
    [][ /\ ev'.op = "valueChange"
           => /\ selectedDate' = value'
              /\ <<currentYear', currentMonth'>> =
                    IF value' # null THEN <<getFullYear(value'), getMonth(value')>>
                                     ELSE <<currentYear, currentMonth>>
        /\ (v1'.phase # "off" /\ v1'.ev.op = "valueChange")
           => /\ v1'.selectedDate = v1'.value
              /\ <<v1'.currentYear, v1'.currentMonth>> =
                    IF v1'.value # undefined
                    THEN <<getFullYear(v1'.value), getMonth(v1'.value)>>
                    ELSE <<v1.currentYear, v1.currentMonth>> ]_vars

(***************************************************************************)
(* The pattern format as the specification words it                        *)
(***************************************************************************)

\* n in decimal, zero-padded to at least width digits.
ZeroPadded(n, width) == padStart(NatToString(n), width, "0")

\* One pass over the pattern: yyyy, mm and dd are substituted where they
\* occur, every other character is copied.
RECURSIVE PatternText(_, _)
PatternText(date, pattern) ==
    IF pattern = <<>> THEN <<>>
    ELSE IF StartsWith(pattern, <<"y", "y", "y", "y">>)
    THEN ZeroPadded(date[1], 4) \o PatternText(date, SubSeq(pattern, 5, Len(pattern)))
    ELSE IF StartsWith(pattern, <<"m", "m">>)
    THEN ZeroPadded(date[2] + 1, 2) \o PatternText(date, SubSeq(pattern, 3, Len(pattern)))
    ELSE IF StartsWith(pattern, <<"d", "d">>)
    THEN ZeroPadded(date[3], 2) \o PatternText(date, SubSeq(pattern, 3, Len(pattern)))
    ELSE <<Head(pattern)>> \o PatternText(date, Tail(pattern))

\* C10 as claimed: for every date and pattern the formatter substitutes yyyy
\* by the year zero-padded to 4 digits, mm by the 1-based month and dd by the
\* day zero-padded to 2 digits, and copies every other character.
C10_PatternFormat ==
    (pure # <<>> /\ pure.fn = "formatDisplay" /\ formatString # <<>>)
        => pure.out = PatternText(pure.arg, formatString)

\* C10 for years of four digits and more: there the formatter does as claimed.
C10_PatternFormatFromYear1000 ==
    (pure # <<>> /\ pure.fn = "formatDisplay" /\ formatString # <<>> /\ pure.arg[1] >= 1000)
        => pure.out = PatternText(pure.arg, formatString)

(***************************************************************************)
(* The Gregorian calendar as the specification words it                    *)
(***************************************************************************)

\* The leap-year rule: divisible by 4 and not by 100, or divisible by 400.
LeapYear(y) == (y % 4 = 0 /\ y % 100 # 0) \/ y % 400 = 0

\* The Gregorian length of month m (0-based) of year y.
GregorianLength(y, m) ==
    IF m = 1 THEN (IF LeapYear(y) THEN 29 ELSE 28)
    ELSE IF m \in {3, 5, 8, 10} THEN 30
    ELSE 31

\* C11 as claimed: for every year and every month index in 0..11,
\* getDaysInMonth returns a value in {28, 29, 30, 31} equal to the Gregorian
\* length of that month, 29 for February exactly in leap years.
C11_GregorianMonthLength ==
    (pure # <<>> /\ pure.fn = "getDaysInMonth")
        => /\ pure.out \in {28, 29, 30, 31}
           /\ pure.out = GregorianLength(pure.arg[1], pure.arg[2])
           /\ (pure.arg[2] = 1 /\ pure.out = 29) <=> (pure.arg[2] = 1 /\ LeapYear(pure.arg[1]))

\* C11 for every year but year 0: there getDaysInMonth does as claimed.
C11_GregorianMonthLengthButYear0 ==
    (pure # <<>> /\ pure.fn = "getDaysInMonth" /\ pure.arg[1] # 0)
        => /\ pure.out \in {28, 29, 30, 31}
           /\ pure.out = GregorianLength(pure.arg[1], pure.arg[2])

(***************************************************************************)
(* The view-state table of the specification                               *)
(***************************************************************************)

\* The step changes the view mode as one row of the table allows: the year
\* label, a year pick, a month pick with days, the month/year label, or an
\* outside click/touch on the open popup.
TableTransition ==
    \/ viewMode = "months" /\ ev'.op = "yearLabel" /\ viewMode' = "years"
    \/ viewMode = "years" /\ ev'.op = "yearSelect" /\ viewMode' = "months"
    \/ viewMode = "months" /\ ev'.op = "monthSelect" /\ includeDays /\ viewMode' = "days"
    \/ viewMode = "days" /\ ev'.op = "monthLabel" /\ viewMode' = "months"
    \/ isOpen /\ ev'.op = "outside" /\ viewMode' = "months"

\* C12 as claimed: every change of the view mode is a transition of the
\* table, and the view mode never changes while the popup is closed; with
\* days the view mode starts at days, so that a popup never opened before
\* first opens in the days view.
C12_ViewModeTransitions ==
    /\ includeDays => viewMode = "days"
    /\ [][ /\ viewMode' # viewMode => TableTransition
           /\ ~isOpen => viewMode' = viewMode ]_vars

\* C12 for the steps taken on an open popup: there every change of the view
\* mode is a transition of the table.
C12_ViewModeTransitionsWhileOpen ==
    [][ (isOpen /\ viewMode' # viewMode) => TableTransition ]_vars

\* C13: without day granularity the view mode is never days, whatever
\* sequence of opens, closes, navigation, picks and outside clicks is taken.
C13_NoDaysViewWithoutDays ==
    ~includeDays => viewMode \in {"months", "years"}

\* C13 witness: without days, a month has just been picked from the months
\* grid after the years grid was visited, and the view mode is months.
C13_Witness ==
    /\ ~includeDays
    /\ ev.op = "monthSelect"
    /\ currentYear # getFullYear(Today)
    /\ selectedDate # null
    /\ viewMode = "months"

\* C14: in every reachable state, after any sequence of month navigation,
\* year navigation, year and month picks and changes of the external value
\* (a calendar date or absent), the view-cursor month is an integer in 0..11
\* and the view-cursor year is an integer.
C14_CursorWellFormed ==
    /\ currentMonth \in 0..11
    /\ currentYear \in Int

\* C14 witness: prev has just wrapped January into December of the year
\* before, after the external value had set the cursor.
C14_Witness ==
    /\ ev.op = "navigateMonth" /\ ev.arg = -1
    /\ currentMonth = 11
    /\ value # null
    /\ currentYear = getFullYear(value) - 1

\* The step is a navigation or drill-down action: prev/next month, prev/next
\* year, a header label, a year pick, a month pick with days, or the popup
\* being opened or dismissed.
NavigationOrDrillDown ==
    \/ ev'.op \in {"navigateMonth", "navigateYear", "yearLabel", "monthLabel",
                   "yearSelect", "inputClick", "open", "overlay", "outside"}
    \/ ev'.op = "monthSelect" /\ includeDays

\* C15: navigation and drill-down actions never change the stored selection
\* and never call onChange; a year pick only sets the cursor year and the
\* mode months; a month pick with days only sets the cursor month and the
\* mode days, and the popup stays open.
C15_NavigationKeepsSelection ==
    [][ /\ NavigationOrDrillDown
           => /\ selectedDate' = selectedDate
              /\ onChangeCalls' = <<>>
        /\ ev'.op = "yearSelect"
           => /\ currentYear' = ev'.arg
              /\ viewMode' = "months"
              /\ UNCHANGED <<selectedDate, currentMonth, isOpen, value, phase>>
        /\ (ev'.op = "monthSelect" /\ includeDays)
           => /\ currentMonth' = ev'.arg
              /\ viewMode' = "days"
              /\ isOpen'
              /\ UNCHANGED <<selectedDate, currentYear, isOpen, value, phase>> ]_vars

\* C15 witness: a year other than the selection's has just been picked from
\* the years grid; the selection is still there and the months grid shows.
C15_Witness ==
    /\ ev.op = "yearSelect"
    /\ currentYear = ev.arg
    /\ selectedDate # null
    /\ getFullYear(selectedDate) # currentYear
    /\ isOpen /\ viewMode = "months"
    /\ onChangeCalls = <<>>

\* C16: a click on the dismiss overlay of an open popup sets the open flag to
\* false and changes nothing else (view mode, view cursor and selection are
\* kept, onChange is not called), and a trigger that reopens changes neither
\* view mode nor cursor, so the grid that was dismissed shows again; an
\* outside click/touch on an open popup closes it and sets the view mode to
\* months.
C16_OverlayClosesOnly ==
    [][ /\ ev'.op = "overlay"
           => /\ isOpen /\ ~isOpen'
              /\ onChangeCalls' = <<>>
              /\ UNCHANGED <<viewMode, currentYear, currentMonth, selectedDate, value, phase>>
              /\ UNCHANGED props
        /\ ev'.op \in {"inputClick", "open"}
           => UNCHANGED <<viewMode, currentYear, currentMonth, selectedDate>>
        /\ (ev'.op = "outside" /\ isOpen)
           => /\ ~isOpen'
              /\ viewMode' = "months"
              /\ onChangeCalls' = <<>>
              /\ UNCHANGED <<currentYear, currentMonth, selectedDate>> ]_vars

\* C16 witness: the overlay has just dismissed the popup while it showed the
\* years grid, and the view mode is still years.
C16_Witness ==
    /\ ev.op = "overlay"
    /\ ~isOpen
    /\ viewMode = "years"
    /\ onChangeCalls = <<>>

\* The years of the year-grid window, before and after the step.
WindowYears == {yearRange[i] : i \in 1..20}
WindowYearsAfter == {yearRange'[i] : i \in 1..20}

\* C17: a year navigation step shifts the cursor year by exactly 1 in months
\* mode and by exactly 20 in years mode; in years mode the window after next
\* (prev) is the 20 years immediately after (before) the previous window,
\* with no overlap and no gap; cursor month, selection and view mode are
\* unchanged.
C17_YearNavigation ==
    [][ ev'.op = "navigateYear"
        => /\ ev'.arg \in {-1, 1}
           /\ viewMode = "months" => currentYear' = currentYear + ev'.arg
           /\ viewMode = "years"
              => /\ currentYear' = currentYear + 20 * ev'.arg
                 /\ WindowYears \cap WindowYearsAfter = {}
                 /\ Cardinality(WindowYearsAfter) = 20
                 /\ ev'.arg = 1  => yearRange'[1] = yearRange[20] + 1
                 /\ ev'.arg = -1 => yearRange'[20] = yearRange[1] - 1
           /\ viewMode \in {"months", "years"}
           /\ onChangeCalls' = <<>>
           /\ UNCHANGED <<currentMonth, selectedDate, viewMode, isOpen>> ]_vars

\* C17 witness: in the years grid, next has just paged the window from the
\* one around today's year to the next one.
C17_Witness ==
    /\ ev.op = "navigateYear" /\ ev.arg = 1
    /\ isOpen /\ viewMode = "years"
    /\ currentYear = getFullYear(Today) + 20
    /\ yearRange[1] = getFullYear(Today) + 10

\* C18, second variant: once mounting has completed the selection equals the
\* initial value and the view cursor is that value's (year, month), January
\* included; with no value the selection is absent and the cursor is today's
\* year and month.
C18_SecondVariantSeeds ==
    (phase = "mounted" /\ ev.op = "mount")
    => /\ selectedDate = value
       /\ <<currentYear, currentMonth>> =
             IF value # null THEN <<getFullYear(value), getMonth(value)>>
                             ELSE <<getFullYear(Today), getMonth(Today)>>

\* C18 as claimed, in each variant: once mounting has completed the selection
\* equals the initial value and the view cursor is that value's
\* (year, month), January included; with no value the selection is absent
\* and the cursor is today's year and month.
C18_SeedInEachVariant ==
    /\ (phase = "mounted" /\ ev.op = "mount")
       => /\ selectedDate = value
          /\ <<currentYear, currentMonth>> =
                IF value # null THEN <<getFullYear(value), getMonth(value)>>
                                ELSE <<getFullYear(Today), getMonth(Today)>>
    /\ (v1.phase = "mounted" /\ v1.ev.op = "mount")
       => /\ v1.selectedDate = v1.value
          /\ <<v1.currentYear, v1.currentMonth>> =
                IF v1.value # undefined
                THEN <<getFullYear(v1.value), getMonth(v1.value)>>
                ELSE <<getFullYear(Today), getMonth(Today)>>

\* C19: the outside-pointer handler is registered exactly once per event
\* type while the instance is mounted, registrations change only on mount and
\* on teardown (not on a render or an opening), none is left after teardown,
\* and after teardown no outside mousedown or touchstart runs the handler or
\* changes the open flag or the view mode.
C19_ListenersOncePerMount ==
    /\ [](phase = "mounted" => listeners = [mousedown |-> 1, touchstart |-> 1])
    /\ [](phase \in {"created", "unmounted"} => listeners = NoListeners)
    /\ [][ /\ listeners' # listeners => ev'.op \in {"mount", "unmount"}
           /\ phase = "unmounted"
              => /\ ev'.op # "outside"
                 /\ UNCHANGED <<isOpen, viewMode, listeners>> ]_vars

\* C19 witness: the instance was torn down while its popup was open, and no
\* registration is left.
C19_Witness ==
    /\ phase = "unmounted"
    /\ ev.op = "unmount"
    /\ isOpen
    /\ listeners = NoListeners

\* C19, first variant: its mousedown registration is made once on mount and
\* removed on teardown, and it registers nothing for touchstart.
C19_FirstVariantListeners ==
    /\ [](v1.phase = "mounted" => v1.listeners = [mousedown |-> 1, touchstart |-> 0])
    /\ [](v1.phase \in {"created", "unmounted"} => v1.listeners = NoListeners)
    /\ [][ v1.phase = "unmounted" => v1' = v1 ]_vars

\* C20 as claimed: run side by side on the same events, the second variant
\* being configured with no bounds, no format pattern and the inline input,
\* the two variants have the same open flag, view mode, view cursor and
\* selection after every step and have made the same onChange calls.
C20_VariantsAgree ==
    ev.op # "none"
    => /\ isOpen = v1.isOpen
       /\ viewMode = v1.viewMode
       /\ <<currentYear, currentMonth>> = <<v1.currentYear, v1.currentMonth>>
       /\ selectedDate = v1.selectedDate
       /\ onChangeCalls = v1.onChangeCalls

\* C20 for the open flag and the view mode only: on these the two variants
\* do agree after every step.
C20_VariantsAgreeOnOpenAndMode ==
    ev.op # "none"
    => /\ isOpen = v1.isOpen
       /\ viewMode = v1.viewMode
       /\ ev = v1.ev

\* Month index of year contains a day the component accepts (handleDaySelect
\* stores it): some day of that month is in range.
MonthHasSelectableDay(year, index) ==
    \E day \in 1..getDaysInMonth(year, index) : isDateInRange(NewDate(year, index, day))

YearHasSelectableDay(year) ==
    \E index \in 0..11 : MonthHasSelectableDay(year, index)

\* C21 as claimed: with days and bounds configured, a month cell of the
\* months grid and a year cell of the years grid is rendered disabled only if
\* no day of that month or year is in range.
C21_DisabledCellsHaveNoSelectableDay ==
    (includeDays /\ isOpen /\ (min # undefined \/ max # undefined))
    => /\ viewMode = "months"
          => \A index \in 0..11 :
                monthCellDisabled(index) => ~MonthHasSelectableDay(currentYear, index)
       /\ viewMode = "years"
          => \A i \in 1..20 :
                yearCellDisabled(yearRange[i]) => ~YearHasSelectableDay(yearRange[i])

\* C22: navigation is invertible.  A month step followed by the opposite
\* month step returns the view cursor (Y, M) the first step started from,
\* across the December/January carry too; a year step followed by the
\* opposite year step in the same view mode returns the cursor year the
\* first step started from.
C22_NavigationInvertible ==
    (pure # <<>> /\ ev.op = pure.fn /\ pure.before # <<>> /\ pure.before[1] = -pure.arg)
    => /\ pure.fn = "navigateMonth"
          => <<currentYear, currentMonth>> = pure.before[2]
       /\ (pure.fn = "navigateYear" /\ pure.before[3] = viewMode)
          => currentYear = pure.before[2][1]

\* C22 witness: from December of YearLo, next carried into January and prev
\* has just carried back.
C22_Witness ==
    /\ pure # <<>> /\ pure.fn = "navigateMonth" /\ ev.op = "navigateMonth"
    /\ pure.arg = -1
    /\ pure.before # <<>>
    /\ pure.before[1] = 1
    /\ pure.before[2] = <<YearLo, 11>>
    /\ pure.out = <<YearLo + 1, 0>>
    /\ <<currentYear, currentMonth>> = <<YearLo, 11>>

====
